---- MODULE Spec2Model ----
(***************************************************************************)
(* Model of the expense policy engine (engine/validator.py, policy.py) and *)
(* of the batch analyser (analyze.py, main).                               *)
(*                                                                         *)
(* Amounts.  Gasto.monto is a Python float; here an amount is an exact     *)
(* fraction [num, den] (den > 0) counted in thousandths of a currency      *)
(* unit, so 100.01 is [num |-> 100010, den |-> 1].  Products and quotients *)
(* by a rate are exact; the float rounding of the code is not modelled     *)
(* (the amounts used below convert without rounding error at the policy    *)
(* cutoffs).                                                               *)
(* Dates.  A date is a day number; today is Hoy.                           *)
(* Alerts.  An alert is represented by its "codigo"; the "mensaje" text    *)
(* takes no part in any decision.                                          *)
(***************************************************************************)
EXTENDS Integers, Sequences, FiniteSets, TLC

VARIABLES
    pc,               \* position in main / in the API view
    gastos,           \* the records read by leer_gastos (or the one API record)
    app_id,           \* TRUE iff _get_oxr_app_id() returns a credential
    dup_ids,          \* detectar_duplicados(gastos)[0]
    neg_ids,          \* detectar_negativos(gastos)
    needed_by_date,   \* date -> set of non-USD currencies
    fechas_pend,      \* dates the fetch loop has still to visit, ascending
    tasas_por_fecha,  \* date -> (currency -> rate)
    oxr_requests,     \* req_count
    http,             \* the lookups sent so far and what each one gave
    usd_amount,       \* convertir_usd's answer for record idx
    idx,              \* index of the record the main loop is at
    result,           \* the verdict of record idx while it is being built
    resultados,       \* verdicts appended so far
    status_counts     \* status -> count

vars == <<pc, gastos, app_id, dup_ids, neg_ids, needed_by_date, fechas_pend,
          tasas_por_fecha, oxr_requests, http, usd_amount, idx, result, resultados,
          status_counts>>

-----------------------------------------------------------------------------
(* Bounds of the model *)

\* datetime.now().date(), as a day number
Hoy == 1000
\* largest number of records in a batch
MaxGastos == 2

-----------------------------------------------------------------------------
(* Amounts as exact fractions *)

Frac(n, d) == [num |-> n, den |-> d]
\* an amount of n thousandths
Monto(n) == Frac(n, 1)
FracMul(a, b) == Frac(a.num * b.num, a.den * b.den)
\* a / b for b.num > 0
FracDiv(a, b) == Frac(a.num * b.den, a.den * b.num)
\* mutant of MayorQue: the cutoff itself counts as exceeded
MayorOIgualQue(a, n) == a.num >= n * 1000 * a.den

\* a > n units of currency (n an integer of the policy), den > 0
MayorQue(a, n) == a.num > n * 1000 * a.den
EsNegativo(a) == a.num < 0

-----------------------------------------------------------------------------
(* engine/policy.py *)

POLITICA ==
    [ moneda_base |-> "USD",
      limite_antiguedad |-> [pendiente_dias |-> 30, rechazado_dias |-> 60],
      limites_por_categoria |->
          [ food      |-> [aprobado_hasta |-> 100, pendiente_hasta |-> 150],
            transport |-> [aprobado_hasta |-> 200, pendiente_hasta |-> 200] ],
      reglas_centro_costo |->
          << [cost_center |-> "core_engineering", categoria_prohibida |-> "food"] >> ]

-----------------------------------------------------------------------------
(* engine/validator.py : validar_gasto *)

\* A rule's contribution: the statuses and the alerts it appends.
Aporte(e, a) == [estados |-> e, alertas |-> a]

\* mutant of ReglaAntiguedad: the cutoffs themselves count as exceeded
ReglaAntiguedadInclusiva(gasto, today) ==
    LET diferencia_dias == today - gasto.fecha
    IN  IF diferencia_dias >= POLITICA.limite_antiguedad.rechazado_dias
        THEN Aporte(<<"RECHAZADO">>, <<"LIMITE_ANTIGUEDAD">>)
        ELSE IF diferencia_dias >= POLITICA.limite_antiguedad.pendiente_dias
        THEN Aporte(<<"PENDIENTE">>, <<"LIMITE_ANTIGUEDAD">>)
        ELSE Aporte(<<"APROBADO">>, <<>>)

\* 1. Regla - Antiguedad del gasto
ReglaAntiguedad(gasto, today) ==
    LET diferencia_dias == today - gasto.fecha
        max_dias_pendientes == POLITICA.limite_antiguedad.pendiente_dias
        max_dias_rechazados == POLITICA.limite_antiguedad.rechazado_dias
    IN  IF diferencia_dias > max_dias_rechazados
        THEN Aporte(<<"RECHAZADO">>, <<"LIMITE_ANTIGUEDAD">>)
        ELSE IF diferencia_dias > max_dias_pendientes
        THEN Aporte(<<"PENDIENTE">>, <<"LIMITE_ANTIGUEDAD">>)
        ELSE Aporte(<<"APROBADO">>, <<>>)

\* the simulated rates of the engine: 1 USD = 800 CLP = 20 MXN = 0.85 EUR
\* (1/800, 1/20 and 1/0.85 = 20/17)
tasas_conversion ==
    [ CLP |-> Frac(1, 800), MXN |-> Frac(1, 20), EUR |-> Frac(20, 17) ]

\* 2a. the amount the category limits are applied to
MntEnUsd(gasto) ==
    IF gasto.moneda # POLITICA.moneda_base /\ gasto.moneda \in DOMAIN tasas_conversion
    THEN FracMul(gasto.monto, tasas_conversion[gasto.moneda])
    ELSE gasto.monto

\* 2b. unknown currency: pending, with an alert
ReglaMoneda(gasto) ==
    IF gasto.moneda # POLITICA.moneda_base /\ gasto.moneda \notin DOMAIN tasas_conversion
    THEN Aporte(<<"PENDIENTE">>, <<"MONEDA_DESCONOCIDA">>)
    ELSE Aporte(<<>>, <<>>)

\* 2c. Regla - Limites de gasto por categoria, on mnt_en_usd
ReglaCategoria(gasto, mnt_en_usd) ==
    LET limites_cat == POLITICA.limites_por_categoria
    IN  IF gasto.categoria \in DOMAIN limites_cat
        THEN LET limites == limites_cat[gasto.categoria]
                 aprobado_hasta == limites.aprobado_hasta
                 pendiente_hasta == limites.pendiente_hasta
             IN  IF MayorQue(mnt_en_usd, pendiente_hasta)
                 THEN Aporte(<<"RECHAZADO">>, <<"LIMITE_CATEGORIA">>)
                 ELSE IF MayorQue(mnt_en_usd, aprobado_hasta)
                 THEN Aporte(<<"PENDIENTE">>, <<"LIMITE_CATEGORIA">>)
                 ELSE Aporte(<<"APROBADO">>, <<>>)
        ELSE Aporte(<<>>, <<>>)

\* mutant of ReglaAplica: the two fields of the rule are swapped
ReglaAplicaCamposCambiados(gasto, regla) ==
    /\ gasto.empleado.cost_center = regla.categoria_prohibida
    /\ gasto.categoria = regla.cost_center

\* does a cost-center rule match the expense?
ReglaAplica(gasto, regla) ==
    /\ gasto.empleado.cost_center = regla.cost_center
    /\ gasto.categoria = regla.categoria_prohibida

\* 3. Regla - Categoria prohibida para centro de costos: the loop over the rules
RECURSIVE ReglaCentroCosto(_, _)
ReglaCentroCosto(gasto, reglas) ==
    IF reglas = <<>>
    THEN Aporte(<<>>, <<>>)
    ELSE LET resto == ReglaCentroCosto(gasto, Tail(reglas))
         IN  IF ReglaAplica(gasto, Head(reglas))
             THEN Aporte(<<"RECHAZADO">> \o resto.estados,
                         <<"POLITICA_CENTRO_COSTO">> \o resto.alertas)
             ELSE resto

Rango(s) == {s[i] : i \in DOMAIN s}

\* mutant of EstadoFinal: PENDIENTE is looked for before RECHAZADO
EstadoFinalPendientePrimero(estados) ==
    IF "PENDIENTE" \in Rango(estados) THEN "PENDIENTE"
    ELSE IF "RECHAZADO" \in Rango(estados) THEN "RECHAZADO"
    ELSE IF "APROBADO" \in Rango(estados) THEN "APROBADO"
    ELSE "PENDIENTE"

\* Determinar estado final por prioridad
EstadoFinal(estados) ==
    IF "RECHAZADO" \in Rango(estados) THEN "RECHAZADO"
    ELSE IF "PENDIENTE" \in Rango(estados) THEN "PENDIENTE"
    ELSE IF "APROBADO" \in Rango(estados) THEN "APROBADO"
    ELSE "PENDIENTE"

\* the list "estados" at the end of validar_gasto
Estados(gasto, today) ==
    ReglaAntiguedad(gasto, today).estados
        \o ReglaMoneda(gasto).estados
        \o ReglaCategoria(gasto, MntEnUsd(gasto)).estados
        \o ReglaCentroCosto(gasto, POLITICA.reglas_centro_costo).estados

\* mutant of Alertas: once the age rejects, the later rules add no alert
AlertasHastaRechazo(gasto, today) ==
    IF ReglaAntiguedad(gasto, today).estados = <<"RECHAZADO">>
    THEN ReglaAntiguedad(gasto, today).alertas
    ELSE ReglaAntiguedad(gasto, today).alertas
             \o ReglaMoneda(gasto).alertas
             \o ReglaCategoria(gasto, MntEnUsd(gasto)).alertas
             \o ReglaCentroCosto(gasto, POLITICA.reglas_centro_costo).alertas

\* the list "alertas" at the end of validar_gasto
Alertas(gasto, today) ==
    ReglaAntiguedad(gasto, today).alertas
        \o ReglaMoneda(gasto).alertas
        \o ReglaCategoria(gasto, MntEnUsd(gasto)).alertas
        \o ReglaCentroCosto(gasto, POLITICA.reglas_centro_costo).alertas

validar_gasto(gasto, today) ==
    [ gasto_id |-> gasto.id,
      status   |-> EstadoFinal(Estados(gasto, today)),
      alertas  |-> Alertas(gasto, today) ]

-----------------------------------------------------------------------------
(* engine/models.py *)

Gasto(id, monto, moneda, fecha, categoria, cost_center) ==
    [ id |-> id, monto |-> monto, moneda |-> moneda, fecha |-> fecha,
      categoria |-> categoria, empleado |-> [cost_center |-> cost_center] ]

-----------------------------------------------------------------------------
(* analyze.py : anomaly detectors *)

\* round(x, 2) of an amount of n thousandths, in hundredths: the nearest
\* hundredth (a tie, n ending in 5, is taken to the even hundredth)
Redondear2(n) ==
    LET q == n \div 10
        r == n % 10
    IN  IF r < 5 THEN q
        ELSE IF r > 5 THEN q + 1
        ELSE IF q % 2 = 0 THEN q ELSE q + 1

\* f"{round(gs.monto, 2):.2f}": the sign and the digits ("-0.00" differs from "0.00")
Formato2(n) ==
    LET c == Redondear2(n)
    IN  [negativo |-> n < 0, centavos |-> IF c < 0 THEN -c ELSE c]

\* the grouping key of detectar_duplicados
ClaveDuplicado(gs) == <<Formato2(gs.monto.num), gs.moneda, gs.fecha>>

\* the first component of detectar_duplicados: ids of the groups with > 1 member
detectar_duplicados(gs_list) ==
    { gs_list[i].id : i \in { k \in DOMAIN gs_list :
          Cardinality({ j \in DOMAIN gs_list :
              ClaveDuplicado(gs_list[j]) = ClaveDuplicado(gs_list[k]) }) > 1 } }

detectar_negativos(gs_list) ==
    { gs_list[i].id : i \in { k \in DOMAIN gs_list : EsNegativo(gs_list[k].monto) } }

-----------------------------------------------------------------------------
(* analyze.py : rates *)

\* mutant of NeededByDate: a record without currency counts as a need
NeededByDateConVacias(gs_list) ==
    LET usa(k) == gs_list[k].moneda # "USD"
        fechas == { gs_list[k].fecha : k \in { j \in DOMAIN gs_list : usa(j) } }
    IN  [ d \in fechas |->
            { gs_list[k].moneda : k \in { j \in DOMAIN gs_list :
                                            usa(j) /\ gs_list[j].fecha = d } } ]

\* needed_by_date of main: the non-USD, non-empty currencies of each date
NeededByDate(gs_list) ==
    LET usa(k) == gs_list[k].moneda # "" /\ gs_list[k].moneda # "USD"
        fechas == { gs_list[k].fecha : k \in { j \in DOMAIN gs_list : usa(j) } }
    IN  [ d \in fechas |->
            { gs_list[k].moneda : k \in { j \in DOMAIN gs_list :
                                            usa(j) /\ gs_list[j].fecha = d } } ]

\* any(needed_by_date.values())
AnyNeeded(needed) == \E d \in DOMAIN needed : needed[d] # {}

\* sorted(S) for a finite set of integers
RECURSIVE Sorted(_)
Sorted(S) ==
    IF S = {} THEN <<>>
    ELSE LET m == CHOOSE x \in S : \A y \in S : x <= y
         IN  <<m>> \o Sorted(S \ {m})

\* JSON values a response may carry for a symbol; "x" is not a number
ValoresJson == {"0", "2", "x"}

\* Decimal(str(val)) succeeds
EsDecimal(val) == val \in {"0", "2"}

\* Decimal(str(val))
DecimalDe(val) == IF val = "2" THEN 2 ELSE 0

\* the responses _http_get_json may give for the symbols asked: each symbol is
\* absent or carries a JSON value
Respuestas(symbols) ==
    UNION { [S -> ValoresJson] : S \in SUBSET symbols }

\* one lookup: the date and symbols of the URL, whether _http_get_json
\* returned (ok) or raised, and the "rates" of the payload it returned
Lookup(d, symbols, ok, raw_rates) ==
    [fecha |-> d, symbols |-> symbols, ok |-> ok, rates |-> raw_rates]

\* the dict "parsed" built from raw_rates for the symbols asked
Parsed(symbols, raw_rates) ==
    [ sym \in { s \in symbols \cap DOMAIN raw_rates : EsDecimal(raw_rates[s]) }
        |-> DecimalDe(raw_rates[sym]) ]

\* the empty dict
DictVacio == [ k \in {} |-> 0 ]

\* Python's None
Ninguno == [ninguno |-> TRUE]

\* mutant of convertir_usd: a zero rate is not refused
convertir_usd_sin_cero(monto, moneda, fecha, tasas) ==
    IF moneda = "USD" THEN monto
    ELSE LET rates == IF fecha \in DOMAIN tasas THEN tasas[fecha] ELSE DictVacio
         IN  IF moneda \notin DOMAIN rates
             THEN Ninguno
             ELSE FracDiv(monto, Frac(rates[moneda], 1))

convertir_usd(monto, moneda, fecha, tasas) ==
    IF moneda = "USD" THEN monto
    ELSE LET rates == IF fecha \in DOMAIN tasas THEN tasas[fecha] ELSE DictVacio
         IN  IF moneda \notin DOMAIN rates \/ rates[moneda] = 0
             THEN Ninguno
             ELSE FracDiv(monto, Frac(rates[moneda], 1))

_estado_por_antiguedad(fecha_gasto, hoy) ==
    LET dias == hoy - fecha_gasto
    IN  IF dias <= 30 THEN "APROBADO"
        ELSE IF dias <= 60 THEN "PENDIENTE"
        ELSE "RECHAZADO"

-----------------------------------------------------------------------------
(* analyze.py : main, the loop over the records *)

\* mutant of ResultadoSinTasa: the status by age is kept as it is
ResultadoSinTasaPorEdad(gs, hoy) ==
    [ gasto_id |-> gs.id,
      status   |-> _estado_por_antiguedad(gs.fecha, hoy),
      alertas  |-> <<"TASA_CAMBIO_NO_DISPONIBLE">> ]

\* the fallback verdict of a record without a rate
ResultadoSinTasa(gs, hoy) ==
    LET base_status == _estado_por_antiguedad(gs.fecha, hoy)
    IN  [ gasto_id |-> gs.id,
          status   |-> IF base_status # "APROBADO" THEN base_status ELSE "PENDIENTE",
          alertas  |-> <<"TASA_CAMBIO_NO_DISPONIBLE">> ]

\* step 1 of the loop body once usd_amount is known: the fallback or the engine
ResultadoDe(gs, usd, hoy) ==
    IF gs.moneda # "USD" /\ usd = Ninguno
    THEN ResultadoSinTasa(gs, hoy)
    ELSE LET gs_usd == [gs EXCEPT !.monto = IF usd # Ninguno THEN usd ELSE gs.monto,
                                  !.moneda = "USD"]
         IN  validar_gasto(gs_usd, hoy)

\* step 1 of the loop body: convert, then the fallback or the engine
ResultadoInicial(gs, tasas, hoy) ==
    ResultadoDe(gs, convertir_usd(gs.monto, gs.moneda, gs.fecha, tasas), hoy)

\* mutant of MergeDuplicado: every duplicate is set to PENDIENTE
MergeDuplicadoSiemprePendiente(res, gs, dups) ==
    IF gs.id \in dups
    THEN [res EXCEPT !.alertas = Append(@, "DUPLICADO_EXACTO"),
                     !.status = "PENDIENTE"]
    ELSE res

\* mutant of MergeDuplicado: the alert is appended, the status is left alone
MergeDuplicadoSoloAlerta(res, gs, dups) ==
    IF gs.id \in dups
    THEN [res EXCEPT !.alertas = Append(@, "DUPLICADO_EXACTO")]
    ELSE res

\* mutant of MergeDuplicado: every duplicate that is not rejected becomes rejected
MergeDuplicadoEscala(res, gs, dups) ==
    IF gs.id \in dups
    THEN [res EXCEPT !.alertas = Append(@, "DUPLICADO_EXACTO"),
                     !.status = IF @ = "APROBADO" THEN "PENDIENTE" ELSE "RECHAZADO"]
    ELSE res

\* step 2, duplicates
MergeDuplicado(res, gs, dups) ==
    IF gs.id \in dups
    THEN [res EXCEPT !.alertas = Append(@, "DUPLICADO_EXACTO"),
                     !.status = IF @ = "APROBADO" THEN "PENDIENTE" ELSE @]
    ELSE res

\* mutant of MergeNegativo: only an approved record is rejected
MergeNegativoSoloAprobado(res, gs, negs) ==
    IF gs.id \in negs
    THEN [res EXCEPT !.alertas = Append(@, "MONTO_NEGATIVO"),
                     !.status = IF @ = "APROBADO" THEN "RECHAZADO" ELSE @]
    ELSE res

\* step 2, negative amounts
MergeNegativo(res, gs, negs) ==
    IF gs.id \in negs
    THEN [res EXCEPT !.alertas = Append(@, "MONTO_NEGATIVO"),
                     !.status = IF @ # "RECHAZADO" THEN "RECHAZADO" ELSE @]
    ELSE res

-----------------------------------------------------------------------------
(* Inputs *)

\* records of a batch as leer_gastos returns them: amounts (thousandths),
\* currencies and ages in days of "food" expenses of the sales team, and a
\* few records of other categories, cost centers and ages
MontosLote == {-5000, 100000, 100010}
MonedasLote == {"USD", "CLP", ""}
EdadesLote == {30, 61}

PlantillasLote ==
    { Gasto(0, Monto(m), mon, Hoy - e, "food", "sales_team") :
        m \in MontosLote, mon \in MonedasLote, e \in EdadesLote }
    \cup { Gasto(0, Monto(100000), "USD", Hoy - 30, "food", "core_engineering"),
           Gasto(0, Monto(200010), "EUR", Hoy - 30, "transport", "sales_team"),
           Gasto(0, Monto(-5000), "CLP", Hoy - 45, "lodging", "sales_team"),
           Gasto(0, Monto(0), "USD", Hoy - 30, "food", "sales_team"),
           Gasto(0, Monto(-4), "USD", Hoy - 30, "food", "sales_team"),
           Gasto(0, Monto(100004), "USD", Hoy - 61, "food", "sales_team") }

\* the batches: up to MaxGastos records, the record at position i has id i
\* (ids are unique within a batch)
Lotes ==
    UNION { { [ i \in 1..n |-> [f[i] EXCEPT !.id = i] ] : f \in [1..n -> PlantillasLote] } :
            n \in 0..MaxGastos }

\* single expenses as the API view builds them
MontosApi == {-5000, 100000, 100010, 150000, 150010, 200000, 200010,
              80000000, 80008000}
MonedasApi == {"USD", "CLP", "EUR", "ARS"}
EdadesApi == {0, 30, 31, 60, 61}
CategoriasApi == {"food", "transport", "lodging"}
CentrosApi == {"core_engineering", "sales_team"}

GastosApi ==
    { Gasto(1, Monto(m), mon, Hoy - e, c, cc) :
        m \in MontosApi, mon \in MonedasApi, e \in EdadesApi,
        c \in CategoriasApi, cc \in CentrosApi }

ResultVacio == [gasto_id |-> 0, status |-> "", alertas |-> <<>>]
CountsCero == [APROBADO |-> 0, PENDIENTE |-> 0, RECHAZADO |-> 0]

-----------------------------------------------------------------------------
(* analyze.py : main as a state machine *)

Init ==
    /\ pc = "inicio"
    /\ gastos \in Lotes
    /\ app_id \in BOOLEAN
    /\ dup_ids = {}
    /\ neg_ids = {}
    /\ needed_by_date = DictVacio
    /\ fechas_pend = <<>>
    /\ tasas_por_fecha = DictVacio
    /\ oxr_requests = 0
    /\ http = <<>>
    /\ usd_amount = Ninguno
    /\ idx = 1
    /\ result = ResultVacio
    /\ resultados = <<>>
    /\ status_counts = CountsCero

\* lines 383-399: the detectors, the needs, and the decision to fetch
Preparar ==
    /\ pc = "inicio"
    /\ dup_ids' = detectar_duplicados(gastos)
    /\ neg_ids' = detectar_negativos(gastos)
    /\ needed_by_date' = NeededByDate(gastos)
    /\ IF AnyNeeded(NeededByDate(gastos)) /\ app_id
       THEN /\ fechas_pend' = Sorted(DOMAIN NeededByDate(gastos))
            /\ pc' = IF DOMAIN NeededByDate(gastos) = {} THEN "evaluar" ELSE "fetch"
       ELSE /\ fechas_pend' = <<>>
            /\ pc' = "evaluar"
    /\ UNCHANGED <<gastos, app_id, tasas_por_fecha, oxr_requests, http, usd_amount,
                   idx, result, resultados, status_counts>>

\* the position after one iteration of the fetch loop
DespuesDeFetch ==
    /\ fechas_pend' = Tail(fechas_pend)
    /\ pc' = IF Tail(fechas_pend) = <<>> THEN "evaluar" ELSE "fetch"
    /\ UNCHANGED <<gastos, app_id, dup_ids, neg_ids, needed_by_date, usd_amount, idx,
                   result, resultados, status_counts>>

\* fetch_tipos_cambio_agrupados_fecha, one iteration whose request succeeds
FetchOk ==
    /\ pc = "fetch"
    /\ LET d == Head(fechas_pend)
           symbols == needed_by_date[d]
       IN  IF symbols = {}
           THEN UNCHANGED <<tasas_por_fecha, oxr_requests, http>>
           ELSE \E raw_rates \in Respuestas(symbols) :
                   /\ oxr_requests' = oxr_requests + 1
                   /\ http' = Append(http, Lookup(d, symbols, TRUE, raw_rates))
                   /\ tasas_por_fecha' =
                          [ x \in DOMAIN tasas_por_fecha \cup {d} |->
                              IF x = d THEN Parsed(symbols, raw_rates)
                              ELSE tasas_por_fecha[x] ]
    /\ DespuesDeFetch

\* mutant of FetchFalla: the exception ends the loop, nothing is recorded
FetchFallaAborta ==
    /\ pc = "fetch"
    /\ needed_by_date[Head(fechas_pend)] # {}
    /\ oxr_requests' = oxr_requests + 1
    /\ http' = Append(http, Lookup(Head(fechas_pend), needed_by_date[Head(fechas_pend)],
                                   FALSE, DictVacio))
    /\ fechas_pend' = <<>>
    /\ pc' = "evaluar"
    /\ UNCHANGED <<gastos, app_id, dup_ids, neg_ids, needed_by_date, tasas_por_fecha,
                   usd_amount, idx, result, resultados, status_counts>>

\* fetch_tipos_cambio_agrupados_fecha, one iteration whose request raises
FetchFalla ==
    /\ pc = "fetch"
    /\ LET d == Head(fechas_pend)
           symbols == needed_by_date[d]
       IN  /\ symbols # {}
           /\ oxr_requests' = oxr_requests + 1
           /\ http' = Append(http, Lookup(d, symbols, FALSE, DictVacio))
           /\ tasas_por_fecha' =
                  [ x \in DOMAIN tasas_por_fecha \cup {d} |->
                      IF x = d THEN DictVacio ELSE tasas_por_fecha[x] ]
    /\ DespuesDeFetch

\* lines 404-435: the initial verdict of record idx
Evaluar ==
    /\ pc = "evaluar"
    /\ idx <= Len(gastos)
    /\ usd_amount' = convertir_usd(gastos[idx].monto, gastos[idx].moneda,
                                   gastos[idx].fecha, tasas_por_fecha)
    /\ result' = ResultadoDe(gastos[idx], usd_amount', Hoy)
    /\ pc' = "duplicado"
    /\ UNCHANGED <<gastos, app_id, dup_ids, neg_ids, needed_by_date, fechas_pend,
                   tasas_por_fecha, oxr_requests, http, idx, resultados, status_counts>>

\* lines 437-445: the duplicate step
Duplicado ==
    /\ pc = "duplicado"
    /\ result' = MergeDuplicado(result, gastos[idx], dup_ids)
    /\ pc' = "negativo"
    /\ UNCHANGED <<gastos, app_id, dup_ids, neg_ids, needed_by_date, fechas_pend,
                   tasas_por_fecha, oxr_requests, http, usd_amount, idx, resultados,
                   status_counts>>

\* lines 447-458: the negative-amount step, the count and the append
Negativo ==
    /\ pc = "negativo"
    /\ LET final == MergeNegativo(result, gastos[idx], neg_ids)
       IN  /\ result' = final
           /\ status_counts' = [status_counts EXCEPT ![final.status] = @ + 1]
           /\ resultados' = Append(resultados, final)
    /\ idx' = idx + 1
    /\ pc' = "evaluar"
    /\ UNCHANGED <<gastos, app_id, dup_ids, neg_ids, needed_by_date, fechas_pend,
                   tasas_por_fecha, oxr_requests, http, usd_amount>>

\* lines 460-481: the loop is over, the report is written
Informe ==
    /\ pc = "evaluar"
    /\ idx > Len(gastos)
    /\ pc' = "done"
    /\ UNCHANGED <<gastos, app_id, dup_ids, neg_ids, needed_by_date, fechas_pend,
                   tasas_por_fecha, oxr_requests, http, usd_amount, idx, result,
                   resultados, status_counts>>

Next ==
    \/ Preparar
    \/ FetchOk
    \/ FetchFalla
    \/ Evaluar
    \/ Duplicado
    \/ Negativo
    \/ Informe

Spec == Init /\ [][Next]_vars

-----------------------------------------------------------------------------
(* engine/views.py : one call of validar_gasto through the API view *)

InitApi ==
    /\ pc = "api"
    /\ gastos \in { <<g>> : g \in GastosApi }
    /\ app_id = FALSE
    /\ dup_ids = {}
    /\ neg_ids = {}
    /\ needed_by_date = DictVacio
    /\ fechas_pend = <<>>
    /\ tasas_por_fecha = DictVacio
    /\ oxr_requests = 0
    /\ http = <<>>
    /\ usd_amount = Ninguno
    /\ idx = 1
    /\ result = ResultVacio
    /\ resultados = <<>>
    /\ status_counts = CountsCero

\* validar_gasto_api, lines 34-39: build the Gasto, validate, answer
ValidarGastoApi ==
    /\ pc = "api"
    /\ result' = validar_gasto(gastos[1], Hoy)
    /\ pc' = "api_done"
    /\ UNCHANGED <<gastos, app_id, dup_ids, neg_ids, needed_by_date, fechas_pend,
                   tasas_por_fecha, oxr_requests, http, usd_amount, idx, resultados,
                   status_counts>>

NextApi == ValidarGastoApi

SpecApi == InitApi /\ [][NextApi]_vars

-----------------------------------------------------------------------------
(* Vocabulary of the properties *)

Severidad(e) == IF e = "RECHAZADO" THEN 2 ELSE IF e = "PENDIENTE" THEN 1 ELSE 0

\* the most severe status of a non-empty set of statuses
MasSevero(S) == CHOOSE e \in S : \A x \in S : Severidad(x) <= Severidad(e)

\* every reordering of a sequence
Reordenes(s) == { [i \in DOMAIN s |-> s[p[i]]] : p \in Permutations(DOMAIN s) }

\* how many times a code occurs in a list of alerts
Veces(alertas, codigo) == Cardinality({ i \in DOMAIN alertas : alertas[i] = codigo })

Tiene(alertas, codigo) == codigo \in Rango(alertas)

EdadDe(gs) == Hoy - gs.fecha
PendienteDias == POLITICA.limite_antiguedad.pendiente_dias
RechazadoDias == POLITICA.limite_antiguedad.rechazado_dias

\* the prohibition entries an expense matches
Prohibiciones(gs) ==
    { i \in DOMAIN POLITICA.reglas_centro_costo :
        /\ POLITICA.reglas_centro_costo[i].cost_center = gs.empleado.cost_center
        /\ POLITICA.reglas_centro_costo[i].categoria_prohibida = gs.categoria }

TieneLimites(gs) == gs.categoria \in DOMAIN POLITICA.limites_por_categoria
LimitesDe(gs) == POLITICA.limites_por_categoria[gs.categoria]

\* the currency is the base currency or one of the engine's table
MonedaConocida(gs) == gs.moneda = "USD" \/ gs.moneda \in {"CLP", "MXN", "EUR"}

\* the API call has returned; the expense it was given
ApiHecho == pc = "api_done"
GastoApi == gastos[1]

-----------------------------------------------------------------------------
\* C1: the status validar_gasto returns is the most severe of the statuses
\* its rules suggested (RECHAZADO > PENDIENTE > APROBADO), and the reducer
\* gives that same status for every order of the suggestions.
C1_EstadoMasSevero ==
    ApiHecho =>
        LET e == Estados(GastoApi, Hoy)
        IN  /\ e # <<>>
            /\ result.status = MasSevero(Rango(e))
            /\ \A r \in Reordenes(e) : EstadoFinal(r) = result.status

\* C1 witness: the three rules suggest three different statuses
C1_Witness ==
    /\ ApiHecho
    /\ Estados(GastoApi, Hoy) = <<"APROBADO", "PENDIENTE", "RECHAZADO">>
    /\ result.status = "RECHAZADO"

\* C2: the age rule suggests RECHAZADO with LIMITE_ANTIGUEDAD exactly when the
\* age exceeds reject_days, PENDIENTE with LIMITE_ANTIGUEDAD exactly when
\* pending_days < age <= reject_days, and APROBADO without alert otherwise;
\* the verdict carries the age alert exactly when age > pending_days, and an
\* expense older than reject_days ends RECHAZADO whatever the other rules say.
C2_ReglaAntiguedad ==
    ApiHecho =>
        LET edad == EdadDe(GastoApi)
            a == ReglaAntiguedad(GastoApi, Hoy)
        IN  /\ (a = Aporte(<<"RECHAZADO">>, <<"LIMITE_ANTIGUEDAD">>)) <=> (edad > RechazadoDias)
            /\ (a = Aporte(<<"PENDIENTE">>, <<"LIMITE_ANTIGUEDAD">>))
                   <=> (PendienteDias < edad /\ edad <= RechazadoDias)
            /\ (a = Aporte(<<"APROBADO">>, <<>>)) <=> (edad <= PendienteDias)
            /\ Veces(result.alertas, "LIMITE_ANTIGUEDAD") = (IF edad > PendienteDias THEN 1 ELSE 0)
            /\ (edad > RechazadoDias) => result.status = "RECHAZADO"
            /\ (edad = RechazadoDias /\ result.alertas = <<"LIMITE_ANTIGUEDAD">>)
                   => result.status = "PENDIENTE"

\* C2 witness: an expense exactly reject_days old, pending by age alone
C2_Witness ==
    /\ ApiHecho
    /\ EdadDe(GastoApi) = RechazadoDias
    /\ result.status = "PENDIENTE"
    /\ result.alertas = <<"LIMITE_ANTIGUEDAD">>

\* a base-currency expense of a category with limits that breaks no other rule
SoloCategoria(gs) ==
    /\ gs.moneda = "USD"
    /\ TieneLimites(gs)
    /\ EdadDe(gs) <= PendienteDias
    /\ Prohibiciones(gs) = {}

\* the amount is exactly n units plus c hundredths
MontoEs(gs, n, c) == gs.monto = Monto(n * 1000 + c * 10)

\* C3 as stated: at approve_upto the verdict is APROBADO, at approve_upto + 0.01
\* PENDIENTE with LIMITE_CATEGORIA, at pending_upto + 0.01 RECHAZADO with
\* LIMITE_CATEGORIA, for every category with limits.
C3_Original ==
    (ApiHecho /\ SoloCategoria(GastoApi)) =>
        LET l == LimitesDe(GastoApi)
        IN  /\ MontoEs(GastoApi, l.aprobado_hasta, 0) => result.status = "APROBADO"
            /\ MontoEs(GastoApi, l.aprobado_hasta, 1)
                   => /\ result.status = "PENDIENTE"
                      /\ Tiene(result.alertas, "LIMITE_CATEGORIA")
            /\ MontoEs(GastoApi, l.pendiente_hasta, 1)
                   => /\ result.status = "RECHAZADO"
                      /\ Tiene(result.alertas, "LIMITE_CATEGORIA")

\* C3 amended: at approve_upto the verdict is APROBADO without alert; at
\* approve_upto + 0.01 it is PENDIENTE with LIMITE_CATEGORIA when
\* approve_upto < pending_upto (food) and RECHAZADO with LIMITE_CATEGORIA when
\* the two limits are equal (transport); at pending_upto + 0.01 it is
\* RECHAZADO with LIMITE_CATEGORIA.
C3_LimitesCategoria ==
    (ApiHecho /\ SoloCategoria(GastoApi)) =>
        LET l == LimitesDe(GastoApi)
        IN  /\ MontoEs(GastoApi, l.aprobado_hasta, 0)
                   => result.status = "APROBADO" /\ result.alertas = <<>>
            /\ MontoEs(GastoApi, l.aprobado_hasta, 1)
                   => /\ result.status = IF l.aprobado_hasta < l.pendiente_hasta
                                         THEN "PENDIENTE" ELSE "RECHAZADO"
                      /\ result.alertas = <<"LIMITE_CATEGORIA">>
            /\ MontoEs(GastoApi, l.pendiente_hasta, 1)
                   => /\ result.status = "RECHAZADO"
                      /\ result.alertas = <<"LIMITE_CATEGORIA">>

\* C3 witness: a food expense of approve_upto + 0.01, pending by category
C3_Witness ==
    /\ ApiHecho
    /\ SoloCategoria(GastoApi)
    /\ GastoApi.categoria = "food"
    /\ MontoEs(GastoApi, LimitesDe(GastoApi).aprobado_hasta, 1)
    /\ result.status = "PENDIENTE"

\* C4: an expense whose (cost center, category) matches a prohibition entry is
\* RECHAZADO and carries POLITICA_CENTRO_COSTO, for every amount, currency and age.
C4_CentroCosto ==
    (ApiHecho /\ Prohibiciones(GastoApi) # {}) =>
        /\ result.status = "RECHAZADO"
        /\ Tiene(result.alertas, "POLITICA_CENTRO_COSTO")

\* C4 witness: a prohibited expense that no other rule rejects
C4_Witness ==
    /\ ApiHecho
    /\ Prohibiciones(GastoApi) # {}
    /\ EdadDe(GastoApi) = 0
    /\ GastoApi.moneda = "EUR"
    /\ result = [gasto_id |-> GastoApi.id, status |-> "RECHAZADO",
                 alertas |-> <<"POLITICA_CENTRO_COSTO">>]

\* the category rule is triggered: known currency, category with limits, and
\* the amount in the base currency over approve_upto
SobreLimite(gs) ==
    /\ MonedaConocida(gs)
    /\ TieneLimites(gs)
    /\ MayorQue(MntEnUsd(gs), LimitesDe(gs).aprobado_hasta)

\* C5: no alert is suppressed: an age over a cutoff gives one
\* LIMITE_ANTIGUEDAD, an amount over a category cutoff one LIMITE_CATEGORIA,
\* each matching prohibition one POLITICA_CENTRO_COSTO, whatever the other
\* rules suggested; an expense breaking the three rules is RECHAZADO and
\* carries the three codes.
C5_SinSupresion ==
    ApiHecho =>
        /\ (EdadDe(GastoApi) > PendienteDias)
               => Veces(result.alertas, "LIMITE_ANTIGUEDAD") = 1
        /\ SobreLimite(GastoApi) => Veces(result.alertas, "LIMITE_CATEGORIA") = 1
        /\ Veces(result.alertas, "POLITICA_CENTRO_COSTO")
               = Cardinality(Prohibiciones(GastoApi))
        /\ (/\ EdadDe(GastoApi) > PendienteDias
            /\ SobreLimite(GastoApi)
            /\ Prohibiciones(GastoApi) # {})
               => /\ result.status = "RECHAZADO"
                  /\ {"LIMITE_ANTIGUEDAD", "LIMITE_CATEGORIA", "POLITICA_CENTRO_COSTO"}
                         \subseteq Rango(result.alertas)

\* C5 witness: age, category and cost center are all violated, the age and
\* the category already reject
C5_Witness ==
    /\ ApiHecho
    /\ EdadDe(GastoApi) > RechazadoDias
    /\ MayorQue(GastoApi.monto, 150) /\ GastoApi.moneda = "USD"
    /\ Prohibiciones(GastoApi) # {}
    /\ result.alertas = <<"LIMITE_ANTIGUEDAD", "LIMITE_CATEGORIA", "POLITICA_CENTRO_COSTO">>

\* C6 as stated: for a currency that is neither the base currency nor in the
\* engine's table, validar_gasto emits MONEDA_DESCONOCIDA and the category
\* rule contributes nothing: no LIMITE_CATEGORIA alert, and a status of
\* PENDIENTE when neither the age nor the cost center is violated.
C6_MonedaDesconocida ==
    (ApiHecho /\ ~MonedaConocida(GastoApi)) =>
        /\ Tiene(result.alertas, "MONEDA_DESCONOCIDA")
        /\ ~Tiene(result.alertas, "LIMITE_CATEGORIA")
        /\ (EdadDe(GastoApi) <= PendienteDias /\ Prohibiciones(GastoApi) = {})
               => result.status = "PENDIENTE"

-----------------------------------------------------------------------------
(* Properties of the batch *)

\* the fetch loop of this run is over (or was never entered)
FetchTerminado == pc \in {"evaluar", "duplicado", "negativo", "done"}

\* the dates with a record whose currency is not the base currency
FechasNoBase ==
    { gastos[i].fecha : i \in { k \in DOMAIN gastos : gastos[k].moneda # "USD" } }

\* the dates with a record whose currency is neither empty nor the base currency
FechasConMoneda ==
    { gastos[i].fecha : i \in { k \in DOMAIN gastos : gastos[k].moneda \notin {"", "USD"} } }

\* C7 as stated: with a credential, the request count is the number of
\* distinct dates with at least one non-base-currency record.
C7_Original ==
    (app_id /\ FetchTerminado) => oxr_requests = Cardinality(FechasNoBase)

\* C7 amended: with a credential, the request count is the number of distinct
\* dates with at least one record whose currency is non-empty and not the
\* base currency: one lookup per such date, never a second one for a date,
\* none for other dates, and none when every record is in the base currency.
C7_UnaConsultaPorFecha ==
    /\ oxr_requests = Cardinality(DOMAIN tasas_por_fecha)
    /\ DOMAIN tasas_por_fecha \subseteq FechasConMoneda
    /\ (app_id /\ FetchTerminado)
           => /\ DOMAIN tasas_por_fecha = FechasConMoneda
              /\ oxr_requests = Cardinality(FechasConMoneda)
    /\ (\A i \in DOMAIN gastos : gastos[i].moneda = "USD") => oxr_requests = 0

\* C7 witness: two records of two foreign currencies share a date, one lookup
C7_Witness ==
    /\ app_id
    /\ pc = "done"
    /\ Len(gastos) = 2
    /\ gastos[1].fecha = gastos[2].fecha
    /\ gastos[1].moneda = "CLP"
    /\ gastos[2].moneda = "EUR"
    /\ oxr_requests = 1

\* the rate table gives no usable rate for the record
SinConversion(gs) ==
    /\ gs.moneda # "USD"
    /\ \/ gs.fecha \notin DOMAIN tasas_por_fecha
       \/ gs.moneda \notin DOMAIN tasas_por_fecha[gs.fecha]
       \/ tasas_por_fecha[gs.fecha][gs.moneda] = 0

\* C8: a record without an available conversion (no credential, failed
\* lookup, currency missing from the response, zero rate) gets the fallback
\* verdict and not the engine's: RECHAZADO if older than the policy's reject
\* cutoff, PENDIENTE otherwise, with the single alert
\* TASA_CAMBIO_NO_DISPONIBLE; it never ends APROBADO, keeps that alert, and
\* the batch ends with one verdict per record, in order.
C8_SinTasa ==
    /\ (pc = "duplicado" /\ ~app_id /\ gastos[idx].moneda # "USD")
           => SinConversion(gastos[idx])
    /\ (pc = "duplicado" /\ SinConversion(gastos[idx]))
           => result = [ gasto_id |-> gastos[idx].id,
                         status   |-> IF EdadDe(gastos[idx]) > RechazadoDias
                                      THEN "RECHAZADO" ELSE "PENDIENTE",
                         alertas  |-> <<"TASA_CAMBIO_NO_DISPONIBLE">> ]
    /\ pc = "done"
           => /\ Len(resultados) = Len(gastos)
              /\ \A i \in DOMAIN gastos :
                    /\ resultados[i].gasto_id = gastos[i].id
                    /\ SinConversion(gastos[i])
                           => /\ resultados[i].status \in {"PENDIENTE", "RECHAZADO"}
                              /\ Tiene(resultados[i].alertas, "TASA_CAMBIO_NO_DISPONIBLE")

\* C8 witness: the response carried a zero rate for a recent record's currency
C8_Witness ==
    /\ pc = "duplicado"
    /\ app_id
    /\ gastos[idx].fecha \in DOMAIN tasas_por_fecha
    /\ gastos[idx].moneda \in DOMAIN tasas_por_fecha[gastos[idx].fecha]
    /\ tasas_por_fecha[gastos[idx].fecha][gastos[idx].moneda] = 0
    /\ EdadDe(gastos[idx]) <= PendienteDias
    /\ result.status = "PENDIENTE"
    /\ result.alertas = <<"TASA_CAMBIO_NO_DISPONIBLE">>

\* C9: the duplicate step appends DUPLICADO_EXACTO to a record whose id is in
\* the duplicate set and turns APROBADO into PENDIENTE, leaving PENDIENTE and
\* RECHAZADO as they are; it leaves any other record unchanged.
C9_PasoDuplicado ==
    [][ pc = "duplicado" =>
          IF gastos[idx].id \in dup_ids
          THEN /\ result'.alertas = Append(result.alertas, "DUPLICADO_EXACTO")
               /\ result'.gasto_id = result.gasto_id
               /\ result'.status = IF result.status = "APROBADO"
                                   THEN "PENDIENTE" ELSE result.status
          ELSE result' = result ]_vars

\* C9 witness: the duplicate step has turned an approved duplicate to pending
C9_Witness ==
    /\ pc = "negativo"
    /\ gastos[idx].id \in dup_ids
    /\ ResultadoInicial(gastos[idx], tasas_por_fecha, Hoy).status = "APROBADO"
    /\ result.status = "PENDIENTE"
    /\ result.alertas = <<"DUPLICADO_EXACTO">>

\* the verdict of record i as it entered the negative-amount step
AntesDeNegativo(i) ==
    MergeDuplicado(ResultadoInicial(gastos[i], tasas_por_fecha, Hoy), gastos[i], dup_ids)

\* C10: every verdict of a record with a strictly negative amount is
\* RECHAZADO and its alerts are the alerts it had before followed by
\* MONTO_NEGATIVO; the verdict of a record with a zero or positive amount is
\* what it was before the step and has no MONTO_NEGATIVO.
C10_MontoNegativo ==
    \A i \in DOMAIN resultados :
        IF gastos[i].monto.num < 0
        THEN /\ resultados[i].status = "RECHAZADO"
             /\ resultados[i].alertas = Append(AntesDeNegativo(i).alertas, "MONTO_NEGATIVO")
        ELSE /\ resultados[i] = AntesDeNegativo(i)
             /\ ~Tiene(resultados[i].alertas, "MONTO_NEGATIVO")

\* C10 witness: a negative record that was pending with two alerts before
C10_Witness ==
    /\ pc = "done"
    /\ \E i \in DOMAIN resultados :
          /\ gastos[i].monto.num < 0
          /\ AntesDeNegativo(i).status = "PENDIENTE"
          /\ resultados[i].status = "RECHAZADO"
          /\ resultados[i].alertas =
                 <<"TASA_CAMBIO_NO_DISPONIBLE", "DUPLICADO_EXACTO", "MONTO_NEGATIVO">>

-----------------------------------------------------------------------------
\* the detectors have run
Detectado == pc \notin {"inicio", "api", "api_done"}

\* records j and k agree in amount rounded to 2 decimals, currency and date
MismaClave(j, k) ==
    /\ Redondear2(gastos[j].monto.num) = Redondear2(gastos[k].monto.num)
    /\ gastos[j].moneda = gastos[k].moneda
    /\ gastos[j].fecha = gastos[k].fecha

\* C11 as stated: the duplicate ids are exactly the ids of the records that
\* share (amount as read rounded to 2 decimals, currency, date) with another
\* record of the batch; a record with another date is not in the group.
C11_ClaveDuplicados ==
    Detectado =>
        dup_ids = { gastos[k].id : k \in { i \in DOMAIN gastos :
                        \E j \in DOMAIN gastos : j # i /\ MismaClave(i, j) } }

\* the severity of the verdict being built does not go down in a merge step
NoBaja == Severidad(result'.status) >= Severidad(result.status)

\* C13: neither the duplicate step nor the negative-amount step lowers the
\* severity of a record's status: RECHAZADO stays, PENDIENTE never becomes
\* APROBADO.
C13_SeveridadNoBaja ==
    [][ (pc = "duplicado" \/ pc = "negativo") => NoBaja ]_vars

\* C13 witness: a rejected record went through the duplicate step as a
\* duplicate and is still rejected
C13_Witness ==
    /\ pc = "negativo"
    /\ gastos[idx].id \in dup_ids
    /\ ResultadoInicial(gastos[idx], tasas_por_fecha, Hoy).status = "RECHAZADO"
    /\ result.status = "RECHAZADO"
    /\ Tiene(result.alertas, "DUPLICADO_EXACTO")

\* what a lookup leaves in the rate table: nothing if it failed, else the
\* numeric rates of the symbols asked that the response carries
TasasDe(h) ==
    IF h.ok
    THEN [ sym \in { x \in h.symbols \cap DOMAIN h.rates : h.rates[x] \in {"0", "2"} }
             |-> IF h.rates[sym] = "0" THEN 0 ELSE 2 ]
    ELSE DictVacio

\* C14: every lookup, failed or not, is counted and leaves an entry for its
\* date: empty if it failed, else exactly the rates returned (a symbol not
\* returned is absent, not zero); the entries of the other dates stay as
\* their own lookups left them, and after a failure the loop goes on to the
\* remaining dates, in ascending order, until every needed date has its entry.
C14_FalloDeConsulta ==
    /\ oxr_requests = Len(http)
    /\ DOMAIN tasas_por_fecha = { http[k].fecha : k \in DOMAIN http }
    /\ \A k \in DOMAIN http :
          /\ tasas_por_fecha[http[k].fecha] = TasasDe(http[k])
          /\ \A sym \in http[k].symbols \ DOMAIN http[k].rates :
                 sym \notin DOMAIN tasas_por_fecha[http[k].fecha]
          /\ \A j \in DOMAIN http : j < k => http[j].fecha < http[k].fecha
    /\ (app_id /\ FetchTerminado)
           => { http[k].fecha : k \in DOMAIN http } = FechasConMoneda

\* C14 witness: the first lookup failed, the second was made and its rate is kept
C14_Witness ==
    /\ pc = "done"
    /\ Len(http) = 2
    /\ ~http[1].ok
    /\ http[2].ok
    /\ tasas_por_fecha[http[1].fecha] = DictVacio
    /\ DOMAIN tasas_por_fecha[http[2].fecha] = {"CLP"}
    /\ tasas_por_fecha[http[2].fecha]["CLP"] = 2
    /\ oxr_requests = 2

\* record idx has been converted
Convertido == pc \in {"duplicado", "negativo"}

\* C15: convertir_usd gives the amount itself for the base currency; for
\* another currency it gives None exactly when the table has no entry for the
\* date, no rate for the currency or a zero rate, and otherwise the amount
\* divided by the rate, with a non-zero divisor.
C15_ConvertirUsd ==
    Convertido =>
        LET gs == gastos[idx]
        IN  IF gs.moneda = "USD"
            THEN usd_amount = gs.monto
            ELSE /\ (usd_amount = Ninguno) <=> SinConversion(gs)
                 /\ (usd_amount # Ninguno)
                        => /\ usd_amount.den # 0
                           /\ usd_amount.num * gs.monto.den
                                  * tasas_por_fecha[gs.fecha][gs.moneda]
                              = gs.monto.num * usd_amount.den

\* C15 witness: an amount in CLP divided by the rate 2 of its date
C15_Witness ==
    /\ pc = "duplicado"
    /\ gastos[idx].moneda = "CLP"
    /\ gastos[idx].monto = Monto(100010)
    /\ ~SinConversion(gastos[idx])
    /\ tasas_por_fecha[gastos[idx].fecha]["CLP"] = 2
    /\ usd_amount = Frac(100010, 2)

\* C16: a final verdict is APROBADO exactly when it has no alert.
C16_AprobadoSinAlertas ==
    \A i \in DOMAIN resultados :
        (resultados[i].status = "APROBADO") <=> (resultados[i].alertas = <<>>)

\* C16 witness: a batch that ends with an approved record without alerts and
\* a pending record with the alert of the category limit
C16_Witness ==
    /\ pc = "done"
    /\ Len(resultados) = 2
    /\ resultados[1] = [gasto_id |-> 1, status |-> "APROBADO", alertas |-> <<>>]
    /\ resultados[2].status = "PENDIENTE"
    /\ resultados[2].alertas = <<"LIMITE_CATEGORIA">>

====
